---- MODULE Spec2Model ----
(***************************************************************************)
(* A model of download.js, a batch URL downloader for Node.js.             *)
(*                                                                         *)
(* One run of the program is modelled as the sequence of callbacks the     *)
(* event loop delivers: every action below is one callback (or the main    *)
(* script), together with the promise reactions (microtasks) it triggers.  *)
(* Filesystem and network operations that have been issued but whose       *)
(* callback has not run yet are the "pending" values of the per-task       *)
(* variables; the event loop may deliver them in any order.                *)
(***************************************************************************)
EXTENDS Integers, Sequences, FiniteSets, TLC

(***************************************************************************)
(* Bounds                                                                  *)
(***************************************************************************)
\* Largest number of lines of the input file.
MaxLines == 2

(***************************************************************************)
(* Text: URLs, paths and file contents are sequences of tokens.            *)
(***************************************************************************)
\* '\n' as one token of a file's content.
NL == <<"\n">>

\* The JavaScript value undefined, where a URL is expected.
Undefined == <<"undefined">>

\* http://a/x : destination x, in the working directory.
UrlX == <<"http:", "//", "a", "/", "x">>
\* http://a/d/y : destination d/y, directory d may have to be created.
UrlY == <<"http:", "//", "a", "/", "d", "/", "y">>
\* http://a/d/ : destination d/, which names a directory.
UrlDir == <<"http:", "//", "a", "/", "d", "/">>
\* A line that is not an absolute URL.
UrlBad == <<"x">>

\* The lines an input file is made of.
Lines == {UrlX, UrlY, UrlDir, UrlBad}

\* All sequences over S of length at most n.
SeqUpTo(S, n) == UNION {[1..k -> S] : k \in 0..n}

\* The input files: every list of at most MaxLines lines.
InputFiles == SeqUpTo(Lines, MaxLines)

\* new URL(url) throws a TypeError unless url is scheme://host[/path].
ValidUrl(url) ==
    /\ Len(url) >= 3
    /\ url[1] \in {"http:", "https:"}
    /\ url[2] = "//"
    /\ url[3] \notin {"/", "//"}

\* (new URL(url)).pathname : the path component, "/" when there is none.
Pathname(url) == IF Len(url) = 3 THEN <<"/">> ELSE SubSeq(url, 4, Len(url))

\* getPathnameWithoutLeadingSlash, for a url that parses.
getPathnameWithoutLeadingSlash(url) ==
    LET pathname == Pathname(url)
    IN  IF Len(pathname) > 0 /\ Head(pathname) = "/" THEN Tail(pathname) ELSE pathname

\* A path without its trailing separators.
RECURSIVE StripSlash(_)
StripSlash(p) ==
    IF Len(p) > 0 /\ p[Len(p)] = "/" THEN StripSlash(SubSeq(p, 1, Len(p) - 1)) ELSE p

\* A path without its last segment (and the separators before it).
RECURSIVE DropSegment(_)
DropSegment(p) ==
    IF Len(p) > 0 /\ p[Len(p)] # "/" THEN DropSegment(SubSeq(p, 1, Len(p) - 1)) ELSE p

\* path.dirname(file) for a relative path.
dirname(file) ==
    LET d == StripSlash(DropSegment(StripSlash(file)))
    IN  IF d = <<>> THEN <<".">> ELSE d

\* The directories mkdir(directory, {recursive: true}) makes sure exist.
RECURSIVE Ancestors(_)
Ancestors(directory) ==
    IF directory = <<".">> THEN {<<".">>}
    ELSE {directory} \cup Ancestors(dirname(directory))

\* stringArray.join('\n') : undefined elements are joined as empty strings.
RECURSIVE JoinLines(_)
JoinLines(stringArray) ==
    IF stringArray = <<>> THEN <<>>
    ELSE LET first == IF Head(stringArray) = Undefined THEN <<>> ELSE <<Head(stringArray)>>
         IN  IF Len(stringArray) = 1 THEN first
             ELSE first \o <<NL>> \o JoinLines(Tail(stringArray))

(***************************************************************************)
(* State                                                                   *)
(***************************************************************************)
VARIABLES
    phase,        \* position of the program: "main", "loading", "running", "joined", "exit"
    crashed,      \* an uncaught exception has terminated the process
    argv,         \* process.argv[2] is present
    infile,       \* the input file: whether it can be read, and its lines
    prev,         \* how the previous run over this input file ended, "none" for a first run
    urls,         \* the urls handed to downloadedUrls
    val,          \* per task: position inside validateFile
    ws,           \* per task: the write stream localFile
    req,          \* per task: the http(s) request and its response
    unl,          \* per task: the fs.unlink issued by the request's error handler
    result,       \* per task: how the promise of downloadUrl settled
    settleOrder,  \* the tasks in the order in which they settled
    files,        \* destination files on disk: path -> "old" or "new"
    files0,       \* the destination files that were on disk when the run started
    dirs,         \* directories on disk
    arrays,       \* downloadFailedArray, downloadExistsArray, downloadSuccessArray
    ledger,       \* the ledger files and download-waiting.txt on disk
    lop,          \* per ledger file: the pending step of its write
    writes        \* per ledger file: number of writes performed on it in this run

vars == <<phase, crashed, argv, infile, prev, urls, val, ws, req, unl, result, settleOrder,
          files, files0, dirs, arrays, ledger, lop, writes>>

taskVars == <<val, ws, req, unl, result, settleOrder>>
diskVars == <<files, dirs>>
ledgerVars == <<arrays, ledger, lop, writes>>

\* The paths a destination file can have.
Paths == {getPathnameWithoutLeadingSlash(u) : u \in {v \in Lines : ValidUrl(v)}}

LedgerFiles == {"download-failed.txt", "download-exists.txt", "download-success.txt",
                "download-finished.txt", "download-waiting.txt"}

\* What download-waiting.txt holds before the run.
WaitingInit == [exists |-> TRUE, data |-> <<<<"pending">>>>]

Absent == [exists |-> FALSE, data |-> <<>>]

Idle == [st |-> "idle", data |-> <<>>]

Pending == [status |-> "pending", reason |-> "none", url |-> Undefined]

Tasks == 1..Len(urls)

(***************************************************************************)
(* The filesystem calls                                                    *)
(***************************************************************************)
\* An existence check that looks for directories only.
AccessOkDirOnly(p, fls, drs) == p # <<>> /\ StripSlash(p) \in drs

\* An existence check whose result is never taken as "exists".
AccessOkNever(p, fls, drs) == FALSE

\* fs.access(p, F_OK) calls back without an error: p names a file or a directory.
AccessOk(p, fls, drs) ==
    \/ p \in DOMAIN fls /\ fls[p] # "absent"
    \/ p # <<>> /\ StripSlash(p) \in drs

\* The fs.open of fs.createWriteStream(p) succeeds: p names a file (not a
\* directory) in an existing directory; otherwise the stream emits 'error'.
OpenOk(p, fls, drs) ==
    /\ p # <<>>
    /\ p[Len(p)] # "/"
    /\ p \notin drs
    /\ dirname(p) \in drs

(***************************************************************************)
(* Promise.allSettled and the classification of its results                *)
(***************************************************************************)
\* Promise.race in place of Promise.allSettled: one settled task is enough.
AnySettled(res) == \E i \in DOMAIN res : res[i].status # "pending"

\* Promise.allSettled(downloadPromises) settles once every promise has settled.
AllSettled(res) == \A i \in DOMAIN res : res[i].status # "pending"

\* Results collected as the tasks settle.
SettledResults(res, order) == [k \in 1..Len(order) |-> res[order[k]]]

\* The results array of Promise.allSettled is in the order of its input.
AllSettledResults(res, order) == [k \in 1..Len(res) |-> res[k]]

RECURSIVE Collect(_, _, _)
Collect(results, status, reason) ==
    IF results = <<>> THEN <<>>
    ELSE LET r == Head(results)
             rest == Collect(Tail(results), status, reason)
         IN  IF r.status = status /\ (reason = "any" \/ r.reason = reason)
             THEN <<r.url>> \o rest
             ELSE rest

\* A guard that pushes a rejected result only if its reason carries a url.
downloadFailedArrayGuarded(results) ==
    SelectSeq(Collect(results, "rejected", "any"), LAMBDA u : u # Undefined)

\* results.forEach: every rejected result pushes result.reason.url.
downloadFailedArray(results) == Collect(results, "rejected", "any")

\* results.forEach: a fulfilled result with reason 'exists' pushes its url.
downloadExistsArray(results) == Collect(results, "fulfilled", "exists")

\* results.forEach: a fulfilled result with reason 'success' pushes its url.
downloadSuccessArray(results) == Collect(results, "fulfilled", "success")

\* The condition under which the run counts as finished.
FinishedCondition(arrs, us) ==
    Len(arrs.exists) + Len(arrs.exists) + Len(arrs.success) = Len(us)

\* writeArrayToFile without its early return on an empty array.
writeArrayToFileAlways(stringArray) == [st |-> "stat", data |-> JoinLines(stringArray)]

\* writeArrayToFile(filename, stringArray) up to its call of fs.stat.
writeArrayToFile(stringArray) ==
    IF Len(stringArray) = 0 THEN Idle
    ELSE [st |-> "stat", data |-> JoinLines(stringArray)]

\* The .then callback on Promise.allSettled: the three arrays it fills.
JoinArrays(res, order) ==
    LET results == AllSettledResults(res, order)
    IN  [failed  |-> downloadFailedArray(results),
         exists  |-> downloadExistsArray(results),
         success |-> downloadSuccessArray(results)]

\* The .finally callback: the writes it issues, per file.
JoinWrites(us, arrs) ==
    LET fin == FinishedCondition(arrs, us)
    IN  [f \in LedgerFiles |->
           CASE f = "download-failed.txt"   -> writeArrayToFile(arrs.failed)
             [] f = "download-exists.txt"   -> writeArrayToFile(arrs.exists)
             [] f = "download-success.txt"  -> writeArrayToFile(arrs.success)
             [] f = "download-finished.txt" ->
                  IF fin THEN writeArrayToFile(us) ELSE Idle
             [] f = "download-waiting.txt"  ->
                  IF fin THEN [st |-> "write", data |-> <<>>] ELSE Idle]

\* The .then and .finally callbacks on Promise.allSettled.
Join(us, res, order) ==
    LET arrs == JoinArrays(res, order)
    IN  /\ phase' = "joined"
        /\ arrays' = arrs
        /\ lop' = JoinWrites(us, arrs)

\* A task settles as res[i]; when it is the last one, the join runs in the
\* same turn of the event loop.
Settle(res, order) ==
    /\ result' = res
    /\ settleOrder' = order
    /\ IF phase = "running" /\ AllSettled(res)
       THEN Join(urls, res, order)
       ELSE UNCHANGED <<phase, arrays, lop>>

Fulfilled(reason, url) == [status |-> "fulfilled", reason |-> reason, url |-> url]

Rejected(reason, url) == [status |-> "rejected", reason |-> reason, url |-> url]

\* A settlement that lets a later resolve or reject replace the outcome.
SettleTaskAgain(i, outcome) ==
    Settle([result EXCEPT ![i] = outcome],
           IF result[i].status = "pending" THEN Append(settleOrder, i) ELSE settleOrder)

\* resolve/reject of downloadUrl's promise for task i: only the first call counts.
SettleTask(i, outcome) ==
    IF result[i].status = "pending"
    THEN Settle([result EXCEPT ![i] = outcome], Append(settleOrder, i))
    ELSE UNCHANGED <<result, settleOrder, phase, arrays, lop>>

file(i) == getPathnameWithoutLeadingSlash(urls[i])

(***************************************************************************)
(* Init                                                                    *)
(***************************************************************************)
\* The disks a run can start from: x may have been downloaded before, and
\* d/y may have (then directory d exists).
InitDisks ==
    {[files |-> [p \in Paths |-> IF p \in S THEN "old" ELSE "absent"],
      dirs  |-> {<<".">>} \cup {dirname(p) : p \in S}] :
        S \in SUBSET {getPathnameWithoutLeadingSlash(UrlX), getPathnameWithoutLeadingSlash(UrlY)}}

Init ==
    /\ phase = "main"
    /\ crashed = FALSE
    /\ argv \in BOOLEAN
    /\ infile \in [readable : BOOLEAN, lines : InputFiles]
    /\ argv = FALSE => infile = [readable |-> FALSE, lines |-> <<>>]
    /\ infile.readable = FALSE => infile.lines = <<>>
    /\ prev = "none"
    /\ urls = <<>>
    /\ val = <<>>
    /\ ws = <<>>
    /\ req = <<>>
    /\ unl = <<>>
    /\ result = <<>>
    /\ settleOrder = <<>>
    /\ \E d \in InitDisks : files = d.files /\ dirs = d.dirs
    /\ files0 = files
    /\ arrays = [failed |-> <<>>, exists |-> <<>>, success |-> <<>>]
    /\ ledger = [f \in LedgerFiles |-> IF f = "download-waiting.txt" THEN WaitingInit ELSE Absent]
    /\ lop = [f \in LedgerFiles |-> Idle]
    /\ writes = [f \in LedgerFiles |-> 0]

(***************************************************************************)
(* The main script and loadUrlsAndDownload                                 *)
(***************************************************************************)
\* The top level of the script: without an argument it reports an error and
\* returns, otherwise loadUrlsAndDownload issues fs.readFile.
Main ==
    /\ phase = "main"
    /\ phase' = IF argv THEN "loading" ELSE "exit"
    /\ UNCHANGED <<crashed, argv, infile, prev, urls, files0>>
    /\ UNCHANGED <<taskVars, diskVars, ledgerVars>>

\* downloadedUrls(us): one downloadUrl per url. The executor of downloadUrl
\* parses the url (a throw rejects the promise with the TypeError, which has
\* no url property) and calls validateFile, which issues fs.access.
downloadedUrls(us) ==
    LET n == Len(us)
        res == [i \in 1..n |-> IF ValidUrl(us[i]) THEN Pending
                                ELSE Rejected("TypeError", Undefined)]
        order == SelectSeq([i \in 1..n |-> i], LAMBDA i : ~ValidUrl(us[i]))
    IN  /\ urls' = us
        /\ val' = [i \in 1..n |-> IF ValidUrl(us[i]) THEN "access" ELSE "none"]
        /\ ws' = [i \in 1..n |-> "none"]
        /\ req' = [i \in 1..n |-> "none"]
        /\ unl' = [i \in 1..n |-> "none"]
        /\ result' = res
        /\ settleOrder' = order
        /\ IF AllSettled(res)
           THEN Join(us, res, order)
           ELSE /\ phase' = "running"
                /\ UNCHANGED <<arrays, lop>>

\* A callback of fs.readFile that does not look at err.
readErrorIgnored(f) == FALSE

\* The err argument of the callback of fs.readFile is set.
readError(f) == ~f.readable

\* The callback of fs.readFile: an error is reported and nothing else
\* happens; otherwise the non-empty lines are handed to downloadedUrls.
ReadFileCb ==
    /\ phase = "loading"
    /\ IF ~readError(infile)
       THEN /\ downloadedUrls(SelectSeq(infile.lines, LAMBDA l : l # <<>>))
            /\ files0' = files
       ELSE /\ phase' = "exit"
            /\ UNCHANGED <<urls, taskVars, arrays, lop, files0>>
    /\ UNCHANGED <<crashed, argv, infile, prev, diskVars, ledger, writes>>

(***************************************************************************)
(* downloadUrl, validateFile and downloadRequest, one action per callback  *)
(***************************************************************************)
Alive == phase \in {"running", "joined"} /\ ~crashed

\* downloadRequest(file, url): fs.createWriteStream(file) starts opening the
\* file, client.get(url) sends the request.
downloadRequest(i) ==
    /\ ws' = [ws EXCEPT ![i] = "opening"]
    /\ req' = [req EXCEPT ![i] = "pending"]

\* The callback of fs.access(file): an existing file rejects with 'exists'
\* and downloadUrl resolves as exists; otherwise fs.access(directory).
AccessFileCb(i) ==
    /\ Alive
    /\ val[i] = "access"
    /\ IF AccessOk(file(i), files, dirs)
       THEN /\ val' = [val EXCEPT ![i] = "rejected"]
            /\ SettleTask(i, Fulfilled("exists", urls[i]))
       ELSE /\ val' = [val EXCEPT ![i] = "accessdir"]
            /\ UNCHANGED <<result, settleOrder, phase, arrays, lop>>
    /\ UNCHANGED <<crashed, argv, infile, prev, urls, ws, req, unl, files0, diskVars, ledger, writes>>

\* The callback of fs.access(directory): an existing directory resolves and
\* downloadRequest starts; otherwise fs.mkdir(directory, {recursive: true}).
AccessDirCb(i) ==
    /\ Alive
    /\ val[i] = "accessdir"
    /\ IF AccessOk(dirname(file(i)), files, dirs)
       THEN /\ val' = [val EXCEPT ![i] = "resolved"]
            /\ downloadRequest(i)
       ELSE /\ val' = [val EXCEPT ![i] = "mkdir"]
            /\ UNCHANGED <<ws, req>>
    /\ UNCHANGED <<phase, crashed, argv, infile, prev, urls, unl, result, settleOrder, files0,
                   diskVars, ledgerVars>>

\* The callback of fs.mkdir without an error: the directory and its missing
\* ancestors exist, validateFile resolves and downloadRequest starts.
MkdirCb(i) ==
    /\ Alive
    /\ val[i] = "mkdir"
    /\ dirs' = dirs \cup Ancestors(dirname(file(i)))
    /\ val' = [val EXCEPT ![i] = "resolved"]
    /\ downloadRequest(i)
    /\ UNCHANGED <<phase, crashed, argv, infile, prev, urls, unl, result, settleOrder, files0,
                   files, ledgerVars>>

\* The callback of fs.mkdir with an error: validateFile rejects with reason
\* 'error' and downloadUrl rejects.
MkdirErrCb(i) ==
    /\ Alive
    /\ val[i] = "mkdir"
    /\ val' = [val EXCEPT ![i] = "failed"]
    /\ SettleTask(i, Rejected("error", urls[i]))
    /\ UNCHANGED <<crashed, argv, infile, prev, urls, ws, req, unl, files0, diskVars, ledger, writes>>

\* The fs.open of the write stream completes: the file is created or
\* truncated. When it fails the stream emits 'error', which has no listener
\* (response.pipe re-emits it when it is the only one): an uncaught exception.
OpenCb(i) ==
    /\ Alive
    /\ ws[i] = "opening"
    /\ IF OpenOk(file(i), files, dirs)
       THEN /\ ws' = [ws EXCEPT ![i] = "open"]
            /\ files' = [files EXCEPT ![file(i)] = "new"]
            /\ UNCHANGED crashed
       ELSE /\ ws' = [ws EXCEPT ![i] = "failed"]
            /\ crashed' = TRUE
            /\ UNCHANGED files
    /\ UNCHANGED <<phase, argv, infile, prev, urls, val, req, unl, result, settleOrder, files0,
                   dirs, ledgerVars>>

\* The callback of client.get: the response has arrived, its 'data' and
\* 'end' handlers are registered and it is piped into the write stream.
ResponseCb(i) ==
    /\ Alive
    /\ req[i] = "pending"
    /\ req' = [req EXCEPT ![i] = "responding"]
    /\ UNCHANGED <<phase, crashed, argv, infile, prev, urls, val, ws, unl, result, settleOrder,
                   files0, diskVars, ledgerVars>>

\* The 'end' event of the response: downloadRequest resolves and downloadUrl
\* resolves as success.
ResponseEnd(i) ==
    /\ Alive
    /\ req[i] = "responding"
    /\ req' = [req EXCEPT ![i] = "ended"]
    /\ SettleTask(i, Fulfilled("success", urls[i]))
    /\ UNCHANGED <<crashed, argv, infile, prev, urls, val, ws, unl, files0, diskVars, ledger, writes>>

\* The connection is closed before the response is complete: the response
\* emits 'aborted' (and 'error', which is dropped without a listener); the
\* request emits nothing, so neither 'end' nor the error handler runs.
ResponseAborted(i) ==
    /\ Alive
    /\ req[i] = "responding"
    /\ req' = [req EXCEPT ![i] = "aborted"]
    /\ UNCHANGED <<phase, crashed, argv, infile, prev, urls, val, ws, unl, result, settleOrder,
                   files0, diskVars, ledgerVars>>

\* The 'error' event of the request (before the response or while it is
\* streamed): downloadRequest and downloadUrl reject, fs.unlink(file) is issued.
RequestError(i) ==
    /\ Alive
    /\ req[i] \in {"pending", "responding"}
    /\ req' = [req EXCEPT ![i] = "error"]
    /\ unl' = [unl EXCEPT ![i] = "pending"]
    /\ SettleTask(i, Rejected("error", urls[i]))
    /\ UNCHANGED <<crashed, argv, infile, prev, urls, val, ws, files0, diskVars, ledger, writes>>

\* The 'error' event of the request after the response has ended: the socket
\* keeps its error listener until it is closed, so an error raised while the
\* connection is shut down still reaches the handler. The reject has no
\* effect on the settled promise, fs.unlink(file) is issued all the same.
RequestErrorAfterEnd(i) ==
    /\ Alive
    /\ req[i] = "ended"
    /\ req' = [req EXCEPT ![i] = "late_error"]
    /\ unl' = [unl EXCEPT ![i] = "pending"]
    /\ SettleTask(i, Rejected("error", urls[i]))
    /\ UNCHANGED <<crashed, argv, infile, prev, urls, val, ws, files0, diskVars, ledger, writes>>

\* The callback of fs.unlink(file): the file is removed; when there is no
\* file the error leads to a second reject, which has no effect.
UnlinkCb(i) ==
    /\ Alive
    /\ unl[i] = "pending"
    /\ IF files[file(i)] # "absent"
       THEN /\ files' = [files EXCEPT ![file(i)] = "absent"]
            /\ unl' = [unl EXCEPT ![i] = "done"]
            /\ UNCHANGED <<result, settleOrder, phase, arrays, lop>>
       ELSE /\ unl' = [unl EXCEPT ![i] = "error"]
            /\ SettleTask(i, Rejected("error", urls[i]))
            /\ UNCHANGED files
    /\ UNCHANGED <<crashed, argv, infile, prev, urls, val, ws, req, files0, dirs, ledger, writes>>

(***************************************************************************)
(* writeArrayToFile and the truncation of download-waiting.txt             *)
(***************************************************************************)
\* The block as it is, whatever the file holds.
appendDataPlain(stats, data) == data

\* const appendData: the block after a newline when the file has content
\* (stats is undefined when the file does not exist).
appendData(stats, data) ==
    IF stats.exists /\ Len(stats.data) > 0 THEN <<NL>> \o data ELSE data

\* An error handler that throws instead of logging.
throwError(c) == TRUE

\* console.error in a callback of the ledger: the process goes on as it was.
logError(c) == c

\* The callback of fs.stat(filename) without an error, or with ENOENT:
\* fs.appendFile is issued with appendData.
StatCb(f) ==
    /\ Alive
    /\ lop[f].st = "stat"
    /\ lop' = [lop EXCEPT ![f] = [st |-> "append", data |-> appendData(ledger[f], lop[f].data)]]
    /\ UNCHANGED <<phase, crashed, argv, infile, prev, urls, taskVars, files0, diskVars,
                   arrays, ledger, writes>>

\* The callback of fs.stat(filename) with an error other than ENOENT: the
\* error is logged and nothing is appended.
StatErrCb(f) ==
    /\ Alive
    /\ lop[f].st = "stat"
    /\ lop' = [lop EXCEPT ![f] = [st |-> "failed", data |-> <<>>]]
    /\ crashed' = logError(crashed)
    /\ UNCHANGED <<phase, argv, infile, prev, urls, taskVars, files0, diskVars,
                   arrays, ledger, writes>>

\* fs.appendFile(filename, appendData) completes.
AppendCb(f) ==
    /\ Alive
    /\ lop[f].st = "append"
    /\ ledger' = [ledger EXCEPT ![f] = [exists |-> TRUE, data |-> @.data \o lop[f].data]]
    /\ lop' = [lop EXCEPT ![f] = [st |-> "done", data |-> <<>>]]
    /\ writes' = [writes EXCEPT ![f] = @ + 1]
    /\ UNCHANGED <<phase, crashed, argv, infile, prev, urls, taskVars, files0, diskVars, arrays>>

\* fs.appendFile(filename, appendData) fails: the error is logged.
AppendErrCb(f) ==
    /\ Alive
    /\ lop[f].st = "append"
    /\ lop' = [lop EXCEPT ![f] = [st |-> "failed", data |-> <<>>]]
    /\ crashed' = logError(crashed)
    /\ UNCHANGED <<phase, argv, infile, prev, urls, taskVars, files0, diskVars,
                   arrays, ledger, writes>>

\* fs.writeFile('download-waiting.txt', '') fails: the error is logged.
WriteFileErrCb(f) ==
    /\ Alive
    /\ lop[f].st = "write"
    /\ lop' = [lop EXCEPT ![f] = [st |-> "failed", data |-> <<>>]]
    /\ crashed' = logError(crashed)
    /\ UNCHANGED <<phase, argv, infile, prev, urls, taskVars, files0, diskVars,
                   arrays, ledger, writes>>

\* fs.writeFile('download-waiting.txt', '') completes.
WriteFileCb(f) ==
    /\ Alive
    /\ lop[f].st = "write"
    /\ ledger' = [ledger EXCEPT ![f] = [exists |-> TRUE, data |-> <<>>]]
    /\ lop' = [lop EXCEPT ![f] = [st |-> "done", data |-> <<>>]]
    /\ writes' = [writes EXCEPT ![f] = @ + 1]
    /\ UNCHANGED <<phase, crashed, argv, infile, prev, urls, taskVars, files0, diskVars, arrays>>

(***************************************************************************)
(* Specification                                                           *)
(***************************************************************************)
Next ==
    \/ Main
    \/ ReadFileCb
    \/ \E i \in Tasks : AccessFileCb(i)
    \/ \E i \in Tasks : AccessDirCb(i)
    \/ \E i \in Tasks : MkdirCb(i)
    \/ \E i \in Tasks : MkdirErrCb(i)
    \/ \E i \in Tasks : OpenCb(i)
    \/ \E i \in Tasks : ResponseCb(i)
    \/ \E i \in Tasks : ResponseEnd(i)
    \/ \E i \in Tasks : ResponseAborted(i)
    \/ \E i \in Tasks : RequestError(i)
    \/ \E i \in Tasks : UnlinkCb(i)
    \/ \E f \in LedgerFiles : StatCb(f)
    \/ \E f \in LedgerFiles : AppendCb(f)
    \/ \E f \in LedgerFiles : WriteFileCb(f)

\* The run with requests that report no error once their response has ended.
Spec == Init /\ [][Next]_vars

\* The tasks of a run, with requests that may report an error after their
\* response has ended. The callbacks of the ledger's writes are left out:
\* they change the ledger files only, which no task reads.
NextTasks ==
    \/ Main
    \/ ReadFileCb
    \/ \E i \in Tasks : AccessFileCb(i)
    \/ \E i \in Tasks : AccessDirCb(i)
    \/ \E i \in Tasks : MkdirCb(i)
    \/ \E i \in Tasks : MkdirErrCb(i)
    \/ \E i \in Tasks : OpenCb(i)
    \/ \E i \in Tasks : ResponseCb(i)
    \/ \E i \in Tasks : ResponseEnd(i)
    \/ \E i \in Tasks : ResponseAborted(i)
    \/ \E i \in Tasks : RequestError(i)
    \/ \E i \in Tasks : RequestErrorAfterEnd(i)
    \/ \E i \in Tasks : UnlinkCb(i)

SpecTasks == Init /\ [][NextTasks]_vars

\* No callback of a task is pending.
TasksQuiet ==
    \A i \in Tasks :
        /\ val[i] \notin {"access", "accessdir", "mkdir"}
        /\ ws[i] # "opening"
        /\ req[i] \notin {"pending", "responding"}
        /\ unl[i] # "pending"

\* The process has ended with nothing left pending and the program is
\* started again with the same argument: a new process, the disk as the
\* previous run left it.
Rerun ==
    /\ phase \in {"running", "joined"}
    /\ ~crashed
    /\ TasksQuiet
    /\ prev' = IF Len(urls) > 0 /\ \A i \in Tasks :
                      result[i].status = "fulfilled" /\ result[i].reason = "success"
               THEN "success" ELSE "other"
    /\ phase' = "main"
    /\ urls' = <<>>
    /\ val' = <<>>
    /\ ws' = <<>>
    /\ req' = <<>>
    /\ unl' = <<>>
    /\ result' = <<>>
    /\ settleOrder' = <<>>
    /\ files0' = files
    /\ arrays' = [failed |-> <<>>, exists |-> <<>>, success |-> <<>>]
    /\ lop' = [f \in LedgerFiles |-> Idle]
    /\ writes' = [f \in LedgerFiles |-> 0]
    /\ UNCHANGED <<crashed, argv, infile, diskVars, ledger>>

\* Runs of the program over the same input file, one after the other.
NextRerun ==
    \/ NextTasks
    \/ Rerun

SpecRerun == Init /\ [][NextRerun]_vars

(***************************************************************************)
(* The ledger writer on its own: the writes of one batch, from the state   *)
(* in which the .finally callback has issued them, over files that earlier *)
(* runs have written, with filesystem calls that may fail.                 *)
(***************************************************************************)
\* What earlier runs can have left in a ledger file: nothing, an empty file
\* (a block of one undefined entry), a url, a url and a newline (a url, then
\* a block of one undefined entry), a newline (two undefined entries).
LedgerContents ==
    {Absent,
     [exists |-> TRUE, data |-> <<>>],
     [exists |-> TRUE, data |-> <<UrlX>>],
     [exists |-> TRUE, data |-> <<UrlX, NL>>],
     [exists |-> TRUE, data |-> <<NL>>]}

\* The ways the task of url u can have ended when nothing is pending.
Outcomes(u) ==
    IF ~ValidUrl(u) THEN {"typeerror"}
    ELSE IF u = UrlDir THEN {"exists"}
    ELSE {"exists", "success", "error"}

\* The settled promise of a task of url u that ended as o.
Outcome(u, o) ==
    CASE o = "typeerror" -> Rejected("TypeError", Undefined)
      [] o = "exists"    -> Fulfilled("exists", u)
      [] o = "success"   -> Fulfilled("success", u)
      [] o = "error"     -> Rejected("error", u)

\* The destination p after tasks of urls us ended as os: removed by the
\* unlink of a task that failed, else written by a task that succeeded,
\* else the file the tasks found; the directory d of an untouched d/y
\* exists because d/y does.
FileAfter(p, us, os) ==
    LET on(o) == \E i \in 1..Len(us) :
                    ValidUrl(us[i]) /\ getPathnameWithoutLeadingSlash(us[i]) = p /\ os[i] = o
    IN  IF on("error") THEN "absent"
        ELSE IF on("success") THEN "new"
        ELSE IF on("exists") /\ p # getPathnameWithoutLeadingSlash(UrlDir) THEN "old"
        ELSE IF p = getPathnameWithoutLeadingSlash(UrlY)
                /\ \E i \in 1..Len(us) : us[i] = UrlDir THEN "old"
        ELSE "absent"

InitLedger ==
    \E us \in InputFiles, c \in LedgerContents :
      \E os \in [1..Len(us) -> {"typeerror", "exists", "success", "error"}] :
        /\ \A i \in 1..Len(us) : us[i] # <<>> /\ os[i] \in Outcomes(us[i])
        /\ phase = "joined"
        /\ crashed = FALSE
        /\ argv = TRUE
        /\ infile = [readable |-> TRUE, lines |-> us]
        /\ prev = "none"
        /\ urls = us
        /\ val = [i \in 1..Len(us) |->
                    CASE os[i] = "typeerror" -> "none"
                      [] os[i] = "exists" -> "rejected"
                      [] OTHER -> "resolved"]
        /\ ws = [i \in 1..Len(us) |-> IF os[i] \in {"success", "error"} THEN "open" ELSE "none"]
        /\ req = [i \in 1..Len(us) |->
                    CASE os[i] = "success" -> "ended"
                      [] os[i] = "error" -> "error"
                      [] OTHER -> "none"]
        /\ unl = [i \in 1..Len(us) |-> IF os[i] = "error" THEN "done" ELSE "none"]
        /\ result = [i \in 1..Len(us) |-> Outcome(us[i], os[i])]
        /\ settleOrder = SelectSeq([i \in 1..Len(us) |-> i], LAMBDA i : ~ValidUrl(us[i]))
                            \o SelectSeq([i \in 1..Len(us) |-> i], LAMBDA i : ValidUrl(us[i]))
        /\ files = [p \in Paths |-> FileAfter(p, us, os)]
        /\ files0 = [p \in Paths |-> IF files[p] = "old" THEN "old" ELSE "absent"]
        /\ dirs = {<<".">>} \cup
                  {dirname(getPathnameWithoutLeadingSlash(UrlY)) :
                      i \in {j \in 1..Len(us) : us[j] \in {UrlY, UrlDir}}}
        /\ arrays = JoinArrays(result, settleOrder)
        /\ lop = JoinWrites(us, arrays)
        /\ ledger = [f \in LedgerFiles |-> IF f = "download-waiting.txt" THEN WaitingInit ELSE c]
        /\ writes = [f \in LedgerFiles |-> 0]

NextLedger ==
    \/ \E f \in LedgerFiles : StatCb(f)
    \/ \E f \in LedgerFiles : StatErrCb(f)
    \/ \E f \in LedgerFiles : AppendCb(f)
    \/ \E f \in LedgerFiles : AppendErrCb(f)
    \/ \E f \in LedgerFiles : WriteFileCb(f)
    \/ \E f \in LedgerFiles : WriteFileErrCb(f)

SpecLedger == InitLedger /\ [][NextLedger]_vars

TypeOK ==
    /\ phase \in {"main", "loading", "running", "joined", "exit"}
    /\ crashed \in BOOLEAN
    /\ prev \in {"none", "success", "other"}
    /\ \A i \in Tasks :
        /\ val[i] \in {"none", "access", "accessdir", "mkdir", "resolved", "rejected", "failed"}
        /\ ws[i] \in {"none", "opening", "open", "failed"}
        /\ req[i] \in {"none", "pending", "responding", "ended", "aborted", "error", "late_error"}
        /\ unl[i] \in {"none", "pending", "done", "error"}
        /\ result[i].status \in {"pending", "fulfilled", "rejected"}

(***************************************************************************)
(* Properties                                                              *)
(***************************************************************************)
WaitingFile == "download-waiting.txt"
FinishedFile == "download-finished.txt"

\* Task i settled as failure, as exists, as success.
IsFailure(i) == result[i].status = "rejected"
IsExists(i) == result[i].status = "fulfilled" /\ result[i].reason = "exists"
IsSuccess(i) == result[i].status = "fulfilled" /\ result[i].reason = "success"
Unsettled(i) == result[i].status = "pending"

\* Every write the ledger has issued has completed.
LedgerQuiet == \A f \in LedgerFiles : lop[f].st \in {"idle", "done"}

\* No write to ledger file f has been issued or performed in this run.
Untouched(f) ==
    /\ lop[f] = Idle
    /\ writes[f] = 0
    /\ ledger[f] = IF f = WaitingFile THEN WaitingInit ELSE Absent

\* No other task of the batch has the destination of task i.
SoleOwner(i) ==
    \A j \in Tasks : j # i /\ ValidUrl(urls[j]) => file(j) # file(i)

\* C1: a batch with at least one failure leaves download-waiting.txt
\* untouched and appends nothing to download-finished.txt.
C1_FailureLeavesPendingWork ==
    (phase = "joined" /\ \E i \in Tasks : IsFailure(i))
        => Untouched(WaitingFile) /\ Untouched(FinishedFile)

\* C2: a batch without a failure appends the full input list to
\* download-finished.txt and truncates download-waiting.txt.
C2_NoFailureFinishes ==
    (phase = "joined" /\ LedgerQuiet /\ \A i \in Tasks : ~IsFailure(i))
        => /\ ledger[WaitingFile] = [exists |-> TRUE, data |-> <<>>]
           /\ ledger[FinishedFile].data = JoinLines(urls)

\* C3: when the ledger is written the three outcome sequences together have
\* one entry per input url.
C3_Completeness ==
    phase = "joined"
        => Len(arrays.failed) + Len(arrays.exists) + Len(arrays.success) = Len(urls)

\* A batch with duplicate urls and mixed outcomes has been joined.
C3_Witness ==
    /\ phase = "joined"
    /\ Len(urls) >= 2
    /\ urls[1] = urls[2]
    /\ Len(arrays.failed) >= 1
    /\ Len(arrays.exists) + Len(arrays.success) >= 1

\* C4: a task whose destination file is on disk before the run never enters
\* downloadRequest (no write stream, no request) and settles only as exists.
C4_Idempotency ==
    \A i \in Tasks :
        (ValidUrl(urls[i]) /\ files0[file(i)] # "absent")
            => /\ req[i] = "none"
               /\ ws[i] = "none"
               /\ Unsettled(i) \/ IsExists(i)

\* A task with an existing destination has settled as exists while another
\* task of the batch has sent its request.
C4_Witness ==
    \E i, j \in Tasks :
        /\ ValidUrl(urls[i])
        /\ files0[file(i)] # "absent"
        /\ IsExists(i)
        /\ req[j] # "none"

\* Task i has met an error of its own.
TaskErrored(i) == IsFailure(i) \/ val[i] = "failed" \/ ws[i] = "failed"

\* C5: a task that fails never keeps a sibling that does not fail itself
\* from settling and from being recorded: the batch is not terminated before
\* it has been joined.
C5_Isolation ==
    \A i, j \in Tasks :
        (i # j /\ TaskErrored(i) /\ ~TaskErrored(j)) => ~(crashed /\ phase # "joined")

\* C6: no ledger file and no download-waiting.txt is written while a task is
\* unsettled, and each of them is written at most once in a run.
C6_JoinBarrier ==
    /\ (phase # "joined" \/ \E i \in Tasks : Unsettled(i))
            => \A f \in LedgerFiles : Untouched(f)
    /\ \A f \in LedgerFiles : writes[f] <= 1

\* After the join of a batch of several tasks three files have been written.
C6_Witness ==
    /\ phase = "joined"
    /\ Len(urls) >= 2
    /\ Cardinality({f \in LedgerFiles : writes[f] = 1}) >= 3

\* The tasks that satisfy P, in input order.
InInputOrder(P(_)) == SelectSeq([i \in 1..Len(urls) |-> i], P)

\* The tasks that satisfy P, in the order in which they settled.
InSettleOrder(P(_)) == SelectSeq(settleOrder, P)

\* The url property of the value or reason task i settled with.
SettledUrl(idx) == [k \in 1..Len(idx) |-> result[idx[k]].url]

\* C7 as stated: each outcome sequence lists its urls in the order in which
\* their tasks settled.
C7_SettleOrder ==
    phase = "joined"
        => /\ arrays.failed = SettledUrl(InSettleOrder(IsFailure))
           /\ arrays.exists = SettledUrl(InSettleOrder(IsExists))
           /\ arrays.success = SettledUrl(InSettleOrder(IsSuccess))

\* C7 as amended: each outcome sequence lists its entries in the input order
\* of their tasks, whatever the order in which the tasks settled.
C7_InputOrder ==
    phase = "joined"
        => /\ arrays.failed = SettledUrl(InInputOrder(IsFailure))
           /\ arrays.exists = SettledUrl(InInputOrder(IsExists))
           /\ arrays.success = SettledUrl(InInputOrder(IsSuccess))

\* Two tasks with different urls and the same outcome settled against the
\* input order, and the batch has been joined.
C7_Witness ==
    /\ phase = "joined"
    /\ \E a, b \in 1..Len(settleOrder) :
        /\ a < b
        /\ settleOrder[a] > settleOrder[b]
        /\ urls[settleOrder[a]] # urls[settleOrder[b]]
        /\ result[settleOrder[a]].status = result[settleOrder[b]].status
        /\ result[settleOrder[a]].reason = result[settleOrder[b]].reason

\* C8: once the request of a task has reported an error and the task's
\* filesystem calls have completed, the task has settled as failure and no
\* file is left at its destination.
C8_PartialFileRemoved ==
    \A i \in Tasks :
        (/\ req[i] = "error"
         /\ SoleOwner(i)
         /\ ws[i] \in {"open", "failed"}
         /\ unl[i] \in {"done", "error"})
            => IsFailure(i) /\ files[file(i)] = "absent"

\* C9: a url that cannot be parsed is itself the entry recorded in the
\* failed sequence.
C9_InvalidUrlRecorded ==
    phase = "joined"
        => \A i \in Tasks :
              ~ValidUrl(urls[i])
                  => IsFailure(i) /\ \E k \in 1..Len(arrays.failed) : arrays.failed[k] = urls[i]

\* Task i has met an I/O error: mkdir, the open of the write stream, or unlink.
IOError(i) == val[i] = "failed" \/ ws[i] = "failed" \/ unl[i] = "error"

\* C10: a per-task I/O error becomes a failure outcome of that task and never
\* terminates the batch.
C10_IOErrorsCaught ==
    \A i \in Tasks : IOError(i) => ~crashed /\ IsFailure(i)

\* C11: in a run that follows a run over the same input file in which every
\* url settled as success, no request is sent and every task settles only
\* as exists.
C11_RerunSafety ==
    prev = "success"
        => \A i \in Tasks : req[i] = "none" /\ (Unsettled(i) \/ IsExists(i))

\* C12: an empty outcome sequence leaves its file alone: nothing is issued
\* for it and the file is neither created nor modified.
C12_EmptyListNoOp ==
    phase = "joined"
        => /\ arrays.failed = <<>> => Untouched("download-failed.txt")
           /\ arrays.exists = <<>> => Untouched("download-exists.txt")
           /\ arrays.success = <<>> => Untouched("download-success.txt")
           /\ urls = <<>> => Untouched(FinishedFile)

\* The ledger of a batch without a failure has been written: the failed
\* file was left alone while another file was appended to.
C12_Witness ==
    /\ phase = "joined"
    /\ LedgerQuiet
    /\ arrays.failed = <<>>
    /\ Untouched("download-failed.txt")
    /\ \E f \in LedgerFiles : f # WaitingFile /\ writes[f] = 1

\* Every url of a file's content is on a line of its own: no two entries
\* follow each other without a newline between them.
OwnLines(data) ==
    \A k \in 1..(Len(data) - 1) : data[k] = NL \/ data[k + 1] = NL

\* C13: in every ledger file, at every step of the stat and append of its
\* write, each recorded url is on a line of its own: a block appended to a
\* file with content comes after a newline.
C13_AppendCorrectness ==
    \A f \in LedgerFiles : OwnLines(ledger[f].data)

\* The succeeded urls have been appended to a file that had content: the
\* file holds the old content, whose last entry is a url, a newline, and
\* the block.
C13_Witness ==
    LET data == ledger["download-success.txt"].data
    IN  /\ writes["download-success.txt"] = 1
        /\ Len(arrays.success) > 0
        /\ \E k \in 1..Len(data) :
              /\ k + 1 <= Len(data)
              /\ data[k] # NL
              /\ data[k + 1] = NL
              /\ SubSeq(data, k + 2, Len(data)) = JoinLines(arrays.success)

\* C14: without a filename argument, or with an input file that cannot be
\* read, no task is started and no ledger file or download-waiting.txt is
\* written.
C14_NoInputNoRun ==
    (~argv \/ ~infile.readable)
        => /\ phase \in {"main", "loading", "exit"}
           /\ Tasks = {}
           /\ \A f \in LedgerFiles : Untouched(f)

\* The program has returned after the read of the input file failed.
C14_Witness == phase = "exit" /\ argv /\ ~infile.readable

\* The fetch of task i is over: its response has ended, or the request has
\* reported an error, or the connection was closed under the response.
FetchOver(i) == req[i] \in {"ended", "error", "late_error", "aborted"}

\* C15: once the fetch of a task is over, the task has settled (the handler
\* that ends the fetch is the one that settles the task, so a task that is
\* unsettled then stays unsettled and the ledger is never written).
C15_FetchOverSettles ==
    \A i \in Tasks : FetchOver(i) => ~Unsettled(i)

\* C16: the outcome of a task never changes once it is set.
C16_OutcomeImmutable ==
    [][\A i \in Tasks : ~Unsettled(i) => result'[i] = result[i]]_vars

\* A task that settled as success has seen its request report an error
\* afterwards, and the unlink issued by the error handler has called back.
C16_Witness ==
    \E i \in Tasks :
        /\ IsSuccess(i)
        /\ req[i] = "late_error"
        /\ unl[i] \in {"done", "error"}

\* C17: the step in which a stat, an append or the truncation of one
\* ledger file fails leaves the process running, leaves the pending writes
\* and the contents of every other ledger file and of download-waiting.txt
\* as they are, and leaves the downloaded files and directories alone.
C17_LedgerBestEffort ==
    [][\A f \in LedgerFiles :
          (lop[f].st # "failed" /\ lop'[f].st = "failed")
              => /\ ~crashed'
                 /\ phase' = phase
                 /\ files' = files
                 /\ dirs' = dirs
                 /\ ledger' = ledger
                 /\ \A g \in LedgerFiles \ {f} : lop'[g] = lop[g]]_vars

\* The write of download-exists.txt has failed; download-finished.txt has
\* been appended to and download-waiting.txt truncated all the same.
C17_Witness ==
    /\ lop["download-exists.txt"].st = "failed"
    /\ writes[FinishedFile] = 1
    /\ writes[WaitingFile] = 1
    /\ ~crashed

\* C18: for a task recorded as success that is the only one with its
\* destination, the error handler's unlink never runs, and the file the
\* write stream has opened stays on disk.
C18_SuccessFileKept ==
    \A i \in Tasks :
        (IsSuccess(i) /\ SoleOwner(i))
            => /\ unl[i] = "none"
               /\ ws[i] = "open" => files[file(i)] # "absent"

\* C19: a destination file that is on disk before the run is left as it
\* was: its task opens no write stream and issues no unlink.
C19_ExistingFileKept ==
    \A i \in Tasks :
        (ValidUrl(urls[i]) /\ files0[file(i)] # "absent")
            => /\ files[file(i)] = files0[file(i)]
               /\ ws[i] = "none"
               /\ unl[i] = "none"

\* A task whose destination was on disk has settled as exists while other
\* tasks have created the file of another path and unlinked theirs.
C19_Witness ==
    \E i, j \in Tasks :
        /\ ValidUrl(urls[i])
        /\ files0[file(i)] # "absent"
        /\ IsExists(i)
        /\ ValidUrl(urls[j])
        /\ file(j) # file(i)
        /\ ws[j] = "open"
        /\ unl[j] = "done"

====
